---- MODULE Spec2Model ----
(***************************************************************************)
(* Model of lutris/gui/dialogs/issue.py: the system-info gatherer and the  *)
(* issue report window with its folder-save flow.                          *)
(*                                                                         *)
(* JSON values are tagged tuples: <<"str", s>>, <<"list", <<v1, ...>>>>,   *)
(* <<"dict", << <<k1, v1>>, ... >> >> (a dict keeps insertion order, as a  *)
(* Python dict does).  A file's content is the sequence of chunks that     *)
(* json.dump wrote to it; white space and separators are left out.         *)
(* A path is the sequence of its components.                               *)
(***************************************************************************)
EXTENDS Integers, Sequences, FiniteSets, TLC

VARIABLES
    window,     \* the IssueReportWindow: "open" or "destroyed"
    comment,    \* text of self.textview's buffer
    pc,         \* position of on_save: "idle", or "picking" inside save_dialog.run()
    fs,         \* the file system: path -> [exists, chunks]
    live,       \* number of FileChooserDialog objects created and not destroyed
    notices,    \* messages of the NoticeDialogs shown so far, oldest first
    raised,     \* exception that left the last handler: "none", "probe", "OSError"
    log,        \* the effects of the last on_folder_selected call, in order
    last,       \* the last handler that ran, with the inputs it saw
    nsaves      \* number of clicks on Save so far

vars == <<window, comment, pc, fs, live, notices, raised, log, last, nsaves>>

----------------------------------------------------------------------------
(* Bounds *)

MaxSaves == 2
MaxCut == 1

Comments == {"", "test comment"}
Dirs == {<<"a">>, <<"b">>}

----------------------------------------------------------------------------
(* JSON values and json.dump *)

Str(s) == <<"str", s>>
List(items) == <<"list", items>>
Dict(pairs) == <<"dict", pairs>>

Tok(t) == <<t, "">>

RECURSIVE Dump(_)
RECURSIVE DumpItems(_, _)
RECURSIVE DumpPairs(_, _)

DumpItems(items, i) ==
    IF i > Len(items) THEN <<>>
    ELSE Dump(items[i]) \o DumpItems(items, i + 1)

DumpPairs(pairs, i) ==
    IF i > Len(pairs) THEN <<>>
    ELSE <<<<"key", pairs[i][1]>>>> \o Dump(pairs[i][2]) \o DumpPairs(pairs, i + 1)

Dump(v) ==
    CASE v[1] = "str"  -> <<v>>
      [] v[1] = "list" -> <<Tok("[")>> \o DumpItems(v[2], 1) \o <<Tok("]")>>
      [] v[1] = "dict" -> <<Tok("{")>> \o DumpPairs(v[2], 1) \o <<Tok("}")>>

(* d[key] = value on a Python dict: replace in place, or append *)
HasKey(pairs, key) == \E i \in 1..Len(pairs) : pairs[i][1] = key

SetItem(d, key, value) ==
    IF HasKey(d[2], key)
    THEN Dict([i \in 1..Len(d[2]) |->
                 IF d[2][i][1] = key THEN <<key, value>> ELSE d[2][i]])
    ELSE Dict(Append(d[2], <<key, value>>))

Keys(d) == {d[2][i][1] : i \in 1..Len(d[2])}

----------------------------------------------------------------------------
(* The probes: what the collaborators return.  The state of the machine a  *)
(* save runs on is a record p:                                             *)
(*   is_nvidia       truth value of drivers.is_nvidia                      *)
(*   nvidia_gpu_ids  what drivers.get_nvidia_gpu_ids() returns             *)
(*   gpus            what drivers.get_gpus() returns                       *)
(*   raises          the probe that raises when called, or "none"          *)

ProbeNames ==
    {"get_nvidia_driver_info", "get_nvidia_gpu_ids", "get_nvidia_gpu_info",
     "get_gpus", "get_gpu_info", "get_missing_libs", "get_cpus",
     "get_drives", "get_ram_info", "get_dist_info", "GlxInfo"}

(* Without an NVIDIA driver there are no NVIDIA GPU ids, and a machine    *)
(* with NVIDIA GPUs has GPUs.  A probe that raises is followed on a        *)
(* machine where every list has an element, with and without the NVIDIA    *)
(* driver.                                                                 *)
ProbeStates ==
    {p \in [is_nvidia : BOOLEAN,
            nvidia_gpu_ids : {<<>>, <<"0">>},
            gpus : {<<>>, <<"card0">>},
            raises : ProbeNames \cup {"none"}] :
        /\ ~p.is_nvidia => p.nvidia_gpu_ids = <<>>
        /\ p.nvidia_gpu_ids # <<>> => p.gpus # <<>>
        /\ p.raises # "none" =>
              /\ p.gpus # <<>>
              /\ p.is_nvidia => p.nvidia_gpu_ids # <<>>}

get_nvidia_driver_info == Dict(<<<<"version", Str("390.48")>>>>)
get_nvidia_gpu_info(gpu_id) == Dict(<<<<"id", Str(gpu_id)>>>>)
get_gpu_info(gpu) == Dict(<<<<"card", Str(gpu)>>>>)
environ == Dict(<<<<"HOME", Str("/home/user")>>>>)
get_missing_libs == List(<<>>)
get_cpus == List(<<Str("cpu0")>>)
get_drives == List(<<Str("sda")>>)
get_ram_info == Dict(<<<<"MemTotal", Str("16G")>>>>)
get_dist_info == List(<<Str("Ubuntu"), Str("18.04")>>)
glxinfo_as_dict == Dict(<<<<"opengl_version", Str("4.6")>>>>)

(* One statement system_info[key] = value of the gatherer, run in state s  *)
(* = [raised, info]: nothing once an exception is on its way; the         *)
(* exception if one of the probes the statement calls raises; else the     *)
(* assignment.                                                             *)
Assign(s, p, called, key, value) ==
    IF s.raised THEN s
    ELSE IF p.raises \in called THEN [s EXCEPT !.raised = TRUE]
    ELSE [s EXCEPT !.info = SetItem(@, key, value)]

(* Variant: the NVIDIA probes run whatever drivers.is_nvidia says *)
gather_system_info_nvidia_always(p) ==
    LET s0 == [raised |-> FALSE, info |-> Dict(<<>>)]
        sa == Assign(s0, p, {"get_nvidia_driver_info"},
                     "nvidia_driver", get_nvidia_driver_info)
        sb == Assign(sa, p,
                     {"get_nvidia_gpu_ids"} \cup
                       (IF p.nvidia_gpu_ids # <<>> THEN {"get_nvidia_gpu_info"} ELSE {}),
                     "nvidia_gpus",
                     List([i \in 1..Len(p.nvidia_gpu_ids) |->
                             get_nvidia_gpu_info(p.nvidia_gpu_ids[i])]))
        s2 == Assign(sb, p,
                     {"get_gpus"} \cup
                       (IF p.gpus # <<>> THEN {"get_gpu_info"} ELSE {}),
                     "gpus",
                     List([i \in 1..Len(p.gpus) |-> get_gpu_info(p.gpus[i])]))
        s3 == Assign(s2, p, {}, "env", environ)
        s4 == Assign(s3, p, {"get_missing_libs"}, "missing_libs", get_missing_libs)
        s5 == Assign(s4, p, {"get_cpus"}, "cpus", get_cpus)
        s6 == Assign(s5, p, {"get_drives"}, "drives", get_drives)
        s7 == Assign(s6, p, {"get_ram_info"}, "ram", get_ram_info)
        s8 == Assign(s7, p, {"get_dist_info"}, "dist", get_dist_info)
        s9 == Assign(s8, p, {"GlxInfo"}, "glxinfo", glxinfo_as_dict)
    IN  s9

gather_system_info(p) ==
    LET s0 == [raised |-> FALSE, info |-> Dict(<<>>)]
        sa == Assign(s0, p, {"get_nvidia_driver_info"},
                     "nvidia_driver", get_nvidia_driver_info)
        sb == Assign(sa, p,
                     {"get_nvidia_gpu_ids"} \cup
                       (IF p.nvidia_gpu_ids # <<>> THEN {"get_nvidia_gpu_info"} ELSE {}),
                     "nvidia_gpus",
                     List([i \in 1..Len(p.nvidia_gpu_ids) |->
                             get_nvidia_gpu_info(p.nvidia_gpu_ids[i])]))
        s1 == IF p.is_nvidia THEN sb ELSE s0
        s2 == Assign(s1, p,
                     {"get_gpus"} \cup
                       (IF p.gpus # <<>> THEN {"get_gpu_info"} ELSE {}),
                     "gpus",
                     List([i \in 1..Len(p.gpus) |-> get_gpu_info(p.gpus[i])]))
        s3 == Assign(s2, p, {}, "env", environ)
        s4 == Assign(s3, p, {"get_missing_libs"}, "missing_libs", get_missing_libs)
        s5 == Assign(s4, p, {"get_cpus"}, "cpus", get_cpus)
        s6 == Assign(s5, p, {"get_drives"}, "drives", get_drives)
        s7 == Assign(s6, p, {"get_ram_info"}, "ram", get_ram_info)
        s8 == Assign(s7, p, {"get_dist_info"}, "dist", get_dist_info)
        s9 == Assign(s8, p, {"GlxInfo"}, "glxinfo", glxinfo_as_dict)
    IN  s9

(* Variant: the buffer is read from its start to its start *)
get_issue_info_empty_comment(text, p) ==
    LET g == gather_system_info(p)
    IN  [raised |-> g.raised,
         value  |-> Dict(<<<<"comment", Str("")>>, <<"system", g.info>>>>)]

(* The report: the comment is read first, then the gatherer runs *)
get_issue_info(text, p) ==
    LET g == gather_system_info(p)
    IN  [raised |-> g.raised,
         value  |-> Dict(<<<<"comment", Str(text)>>, <<"system", g.info>>>>)]

----------------------------------------------------------------------------
(* Files *)

ReportName == "lutris-issue-report.json"

join(target_path, name) == Append(target_path, name)

Absent == [exists |-> FALSE, chunks |-> <<>>]
OldFile == [exists |-> TRUE, chunks |-> <<Str("old content")>>]

(* The paths the model follows: the report file in each directory, and    *)
(* the one a join with the empty path names.                               *)
FilePaths == {join(d, ReportName) : d \in Dirs \cup {<<>>}}

Prefix(chunks, n) == SubSeq(chunks, 1, IF n < Len(chunks) THEN n ELSE Len(chunks) - 1)

(* Variant: the file is opened in mode "a" *)
write_json_append(files, issue_path, issue_info, wr, cut) ==
    CASE wr = "open_fails" ->
           [raised |-> TRUE, fs |-> files]
      [] wr = "dump_fails" ->
           [raised |-> TRUE,
            fs |-> [files EXCEPT ![issue_path] =
                      [exists |-> TRUE,
                       chunks |-> @.chunks \o Prefix(Dump(issue_info), cut)]]]
      [] wr = "ok" ->
           [raised |-> FALSE,
            fs |-> [files EXCEPT ![issue_path] =
                      [exists |-> TRUE, chunks |-> @.chunks \o Dump(issue_info)]]]

(* with open(issue_path, "w") as f: json.dump(issue_info, f, indent=2)    *)
(*   wr = "ok"          every chunk is written                             *)
(*   wr = "open_fails"  open raises, the file is not touched               *)
(*   wr = "dump_fails"  the file is truncated, then a write raises after   *)
(*                      cut chunks                                         *)
write_json(files, issue_path, issue_info, wr, cut) ==
    CASE wr = "open_fails" ->
           [raised |-> TRUE, fs |-> files]
      [] wr = "dump_fails" ->
           [raised |-> TRUE,
            fs |-> [files EXCEPT ![issue_path] =
                      [exists |-> TRUE, chunks |-> Prefix(Dump(issue_info), cut)]]]
      [] wr = "ok" ->
           [raised |-> FALSE,
            fs |-> [files EXCEPT ![issue_path] =
                      [exists |-> TRUE, chunks |-> Dump(issue_info)]]]

WriteOutcomes == {"ok", "open_fails", "dump_fails"}

----------------------------------------------------------------------------
(* The folder picker's answers *)

OK == "OK"
Responses == {"OK", "CLOSE", "DELETE_EVENT"}

(* dialog.get_current_folder(): {} is None, {<<>>} the empty string *)
NoFolder == {{}, {<<>>}}
FolderAnswers == NoFolder \cup {{d} : d \in Dirs}

(* Variant: if target_path is None *)
Falsy_none_only(target_path) == target_path = {}

(* not target_path *)
Falsy(target_path) == target_path = {} \/ target_path = {<<>>}

(* the value of a target_path that is not None *)
TheFolder(target_path) == CHOOSE d \in target_path : TRUE

NoticeText(issue_path) == <<"Issue saved in", issue_path>>

(* The response handler works on m = [window, fs, live, notices, raised,   *)
(* log]: the report window, the files, the live pickers, the notices       *)
(* shown, the exception on its way out and the log of what the handler has *)
(* done.  Each statement is a step on m that does nothing once an          *)
(* exception is on its way.                                                *)

gather_step(m, issue_info) ==
    IF m.raised # "none" THEN m
    ELSE IF issue_info.raised
    THEN [m EXCEPT !.raised = "probe", !.log = Append(@, "gather_raised")]
    ELSE [m EXCEPT !.log = Append(@, "gather")]

write_step(m, issue_path, issue_info, wr, cut) ==
    IF m.raised # "none" THEN m
    ELSE LET w == write_json(m.fs, issue_path, issue_info.value, wr, cut)
         IN  IF w.raised
             THEN [m EXCEPT !.fs = w.fs, !.raised = "OSError",
                            !.log = Append(@, "write_raised")]
             ELSE [m EXCEPT !.fs = w.fs, !.log = Append(@, "write")]

(* Variant: dialog.destroy() is forgotten *)
destroy_step_forgotten(m) ==
    IF m.raised # "none" THEN m
    ELSE [m EXCEPT !.log = Append(@, "destroy")]

destroy_step(m) ==
    IF m.raised # "none" THEN m
    ELSE [m EXCEPT !.live = @ - 1, !.log = Append(@, "destroy")]

notice_step(m, issue_path) ==
    IF m.raised # "none" THEN m
    ELSE [m EXCEPT !.notices = Append(@, NoticeText(issue_path)),
                   !.log = Append(@, "notice")]

(* Variant: the answer is not looked at *)
on_folder_selected_any_response(response, target_path, p, wr, cut) ==
    LET m0 == [window |-> window, fs |-> fs, live |-> live,
               notices |-> notices, raised |-> "none", log |-> <<>>]
    IN
    IF Falsy(target_path) THEN m0
    ELSE
      LET issue_path == join(TheFolder(target_path), ReportName)
          issue_info == get_issue_info(comment, p)
          m1 == gather_step(m0, issue_info)
          m2 == write_step(m1, issue_path, issue_info, wr, cut)
          m3 == destroy_step(m2)
          m4 == notice_step(m3, issue_path)
      IN  m4

(* Variant: the file is opened before the report is built *)
on_folder_selected_open_first(response, target_path, p, wr, cut) ==
    LET m0 == [window |-> window, fs |-> fs, live |-> live,
               notices |-> notices, raised |-> "none", log |-> <<>>]
    IN
    IF response # OK THEN m0
    ELSE IF Falsy(target_path) THEN m0
    ELSE
      LET issue_path == join(TheFolder(target_path), ReportName)
          issue_info == get_issue_info(comment, p)
          opened == IF wr = "open_fails" THEN m0
                    ELSE [m0 EXCEPT !.fs[issue_path] = [exists |-> TRUE, chunks |-> <<>>]]
          m1 == gather_step(opened, issue_info)
          m2 == write_step(m1, issue_path, issue_info, wr, cut)
          m3 == destroy_step(m2)
          m4 == notice_step(m3, issue_path)
      IN  m4

(* Variant: the report window is destroyed once the report is saved *)
on_folder_selected_closing(response, target_path, p, wr, cut) ==
    LET m0 == [window |-> window, fs |-> fs, live |-> live,
               notices |-> notices, raised |-> "none", log |-> <<>>]
    IN
    IF response # OK THEN m0
    ELSE IF Falsy(target_path) THEN m0
    ELSE
      LET issue_path == join(TheFolder(target_path), ReportName)
          issue_info == get_issue_info(comment, p)
          m1 == gather_step(m0, issue_info)
          m2 == write_step(m1, issue_path, issue_info, wr, cut)
          m3 == destroy_step(m2)
          m4 == notice_step(m3, issue_path)
      IN  IF m4.raised # "none" THEN m4 ELSE [m4 EXCEPT !.window = "destroyed"]

(* Variant: the notice is shown before the file is written *)
on_folder_selected_notice_first(response, target_path, p, wr, cut) ==
    LET m0 == [window |-> window, fs |-> fs, live |-> live,
               notices |-> notices, raised |-> "none", log |-> <<>>]
    IN
    IF response # OK THEN m0
    ELSE IF Falsy(target_path) THEN m0
    ELSE
      LET issue_path == join(TheFolder(target_path), ReportName)
          issue_info == get_issue_info(comment, p)
          m1 == gather_step(m0, issue_info)
          m2 == notice_step(m1, issue_path)
          m3 == write_step(m2, issue_path, issue_info, wr, cut)
          m4 == destroy_step(m3)
      IN  m4

on_folder_selected(response, target_path, p, wr, cut) ==
    LET m0 == [window |-> window, fs |-> fs, live |-> live,
               notices |-> notices, raised |-> "none", log |-> <<>>]
    IN
    IF response # OK THEN m0
    ELSE IF Falsy(target_path) THEN m0
    ELSE
      LET issue_path == join(TheFolder(target_path), ReportName)
          issue_info == get_issue_info(comment, p)
          m1 == gather_step(m0, issue_info)
          m2 == write_step(m1, issue_path, issue_info, wr, cut)
          m3 == destroy_step(m2)
          m4 == notice_step(m3, issue_path)
      IN  m4

----------------------------------------------------------------------------
(* The state machine *)

NoSystem == Dict(<<>>)

Init ==
    /\ window = "open"
    /\ comment = ""
    /\ pc = "idle"
    /\ fs = [path \in FilePaths |->
               IF path = join(<<"a">>, ReportName) THEN OldFile ELSE Absent]
    /\ live = 0
    /\ notices = <<>>
    /\ raised = "none"
    /\ log = <<>>
    /\ last = [response |-> "none", target_path |-> {}, comment |-> "",
               probe_raised |-> FALSE, gathered |-> FALSE,
               is_nvidia |-> FALSE, system |-> NoSystem]
    /\ nsaves = 0

(* The user types in the text view *)
Edit ==
    /\ window = "open"
    /\ pc = "idle"
    /\ \E text \in Comments \ {comment} : comment' = text
    /\ UNCHANGED <<window, pc, fs, live, notices, raised, log, last, nsaves>>

(* Variant: Cancel asks before it throws a comment away *)
on_destroy_confirm ==
    /\ window = "open"
    /\ pc = "idle"
    /\ comment = ""
    /\ window' = "destroyed"
    /\ UNCHANGED <<comment, pc, fs, live, notices, raised, log, last, nsaves>>

(* Cancel button: self.destroy() *)
on_destroy ==
    /\ window = "open"
    /\ pc = "idle"
    /\ window' = "destroyed"
    /\ UNCHANGED <<comment, pc, fs, live, notices, raised, log, last, nsaves>>

(* Save button: a new folder picker, then save_dialog.run() waits for the *)
(* answer.  The picker is modal while run() waits, so the report window    *)
(* takes no input until it answers; a picker answers once, in its run().   *)
on_save ==
    /\ window = "open"
    /\ pc = "idle"
    /\ nsaves < MaxSaves
    /\ nsaves' = nsaves + 1
    /\ live' = live + 1
    /\ pc' = "picking"
    /\ UNCHANGED <<window, comment, fs, notices, raised, log, last>>

(* What one answer of the picker is made of.  What the handler never     *)
(* reads on its path is left at a fixed value: the probes after an answer  *)
(* other than OK or without a folder, the write after a probe raised.      *)
Quiet == [is_nvidia |-> FALSE, nvidia_gpu_ids |-> <<>>, gpus |-> <<>>,
          raises |-> "none"]

Answer(response, target_path, p, wr, cut) ==
    [response |-> response, target_path |-> target_path, p |-> p,
     wr |-> wr, cut |-> cut]

Answers ==
    {Answer(r, t, Quiet, "ok", 0) : r \in Responses \ {OK}, t \in FolderAnswers}
    \cup {Answer(OK, t, Quiet, "ok", 0) : t \in NoFolder}
    \cup {Answer(OK, {d}, p, "ok", 0) : d \in Dirs, p \in ProbeStates}
    \cup {Answer(OK, {d}, p, "open_fails", 0) :
            d \in Dirs, p \in {q \in ProbeStates : q.raises = "none"}}
    \cup {Answer(OK, {d[1]}, p, "dump_fails", d[2]) :
            d \in Dirs \X (0..MaxCut), p \in {q \in ProbeStates : q.raises = "none"}}

(* The picker answers: on_folder_selected runs, then run() and on_save    *)
(* return.                                                                 *)
Response ==
    /\ pc = "picking"
    /\ \E a \in Answers :
         \E m \in {on_folder_selected(a.response, a.target_path, a.p, a.wr, a.cut)} :
         LET
             \* what the handler was given, kept for the properties below
             ran == a.response = OK /\ a.target_path \notin NoFolder
             g == gather_system_info(a.p)
             returned == ran /\ ~g.raised
         IN  /\ window' = m.window
             /\ fs' = m.fs
             /\ live' = m.live
             /\ notices' = m.notices
             /\ raised' = m.raised
             /\ log' = m.log
             /\ last' = [response |-> a.response,
                         target_path |-> a.target_path,
                         comment |-> comment,
                         probe_raised |-> ran /\ g.raised,
                         gathered |-> returned,
                         is_nvidia |-> returned /\ a.p.is_nvidia,
                         system |-> IF returned THEN g.info ELSE NoSystem]
    /\ pc' = "idle"
    /\ UNCHANGED <<comment, nsaves>>

Next == Edit \/ on_destroy \/ on_save \/ Response

Spec == Init /\ [][Next]_vars

TypeOK ==
    /\ window \in {"open", "destroyed"}
    /\ comment \in Comments
    /\ pc \in {"idle", "picking"}
    /\ live \in 0..nsaves
    /\ nsaves \in 0..MaxSaves
    /\ raised \in {"none", "probe", "OSError"}

----------------------------------------------------------------------------
(* Reading a file back: the JSON value its chunks spell, or Invalid *)

Invalid == <<"invalid", <<>>>>
Bad == [ok |-> FALSE, v |-> Invalid, n |-> 0]

RECURSIVE ParseValue(_, _)
RECURSIVE ParseItems(_, _, _)
RECURSIVE ParsePairs(_, _, _)

ParseItems(t, i, acc) ==
    IF i > Len(t) THEN Bad
    ELSE IF t[i] = Tok("]") THEN [ok |-> TRUE, v |-> List(acc), n |-> i + 1]
    ELSE LET r == ParseValue(t, i)
         IN  IF r.ok THEN ParseItems(t, r.n, Append(acc, r.v)) ELSE Bad

ParsePairs(t, i, acc) ==
    IF i > Len(t) THEN Bad
    ELSE IF t[i] = Tok("}") THEN [ok |-> TRUE, v |-> Dict(acc), n |-> i + 1]
    ELSE IF t[i][1] # "key" THEN Bad
    ELSE LET r == ParseValue(t, i + 1)
         IN  IF r.ok THEN ParsePairs(t, r.n, Append(acc, <<t[i][2], r.v>>)) ELSE Bad

ParseValue(t, i) ==
    IF i > Len(t) THEN Bad
    ELSE CASE t[i][1] = "str" -> [ok |-> TRUE, v |-> t[i], n |-> i + 1]
           [] t[i] = Tok("[") -> ParseItems(t, i + 1, <<>>)
           [] t[i] = Tok("{") -> ParsePairs(t, i + 1, <<>>)
           [] OTHER -> Bad

json_load(file) ==
    LET r == ParseValue(file.chunks, 1)
    IN  IF file.exists /\ r.ok /\ r.n = Len(file.chunks) + 1 THEN r.v ELSE Invalid

----------------------------------------------------------------------------
(* Vocabulary of the properties *)

(* the step is one answer of the picker, on_folder_selected included *)
Answered == pc = "picking" /\ pc' = "idle"

(* the last answer was OK with a folder *)
Confirmed == last.response = OK /\ last.target_path \notin NoFolder

(* the last answer was a save in which nothing failed *)
Saved == Confirmed /\ last.gathered /\ raised = "none"

LastPath == join(TheFolder(last.target_path), ReportName)

LastReport == Dict(<<<<"comment", Str(last.comment)>>, <<"system", last.system>>>>)

BaseKeys == {"gpus", "env", "missing_libs", "cpus", "drives", "ram", "dist", "glxinfo"}
NvidiaKeys == {"nvidia_driver", "nvidia_gpus"}

----------------------------------------------------------------------------
(* C1: after a confirmed save to a non-empty folder F in which no probe   *)
(* and no write failed, F/lutris-issue-report.json parses to exactly       *)
(* {comment: the text at the save, system: what the gatherer returned}.    *)
C1_SavedFileHoldsReport ==
    Saved => json_load(fs[LastPath]) = LastReport

C1_Witness ==
    /\ Saved
    /\ last.comment = "test comment"
    /\ last.is_nvidia
    /\ json_load(fs[LastPath]) = LastReport

(* C2: the mapping gather_system_info() returns has the eight             *)
(* unconditional keys, plus nvidia_driver and nvidia_gpus exactly when     *)
(* drivers.is_nvidia is true, and no other key.                            *)
C2_GatheredKeys ==
    last.gathered =>
        /\ Keys(last.system) = BaseKeys \cup (IF last.is_nvidia THEN NvidiaKeys ELSE {})
        /\ Len(last.system[2]) = Cardinality(Keys(last.system))

C2_Witness ==
    /\ last.gathered
    /\ ~last.is_nvidia
    /\ Keys(last.system) = BaseKeys

(* C3: an answer other than OK leaves the report window open, the comment *)
(* and every file as they were, runs no gatherer and shows no notice.      *)
C3_PickerCancelIsNoOp ==
    [][(Answered /\ last'.response # OK) =>
          /\ window' = "open"
          /\ comment' = comment
          /\ fs' = fs
          /\ notices' = notices
          /\ log' = <<>>
          /\ raised' = "none"]_vars

C3_Witness ==
    /\ pc = "idle"
    /\ last.response = "CLOSE"
    /\ last.target_path = {<<"b">>}
    /\ comment = "test comment"
    /\ window = "open"
    /\ ~fs[join(<<"b">>, ReportName)].exists

(* C4: an OK answer whose folder is empty or unset makes the handler      *)
(* return without an error: no file is created or modified, no notice is   *)
(* shown, and the report window is open and idle again.                    *)
C4_EmptyPathIsSilentNoOp ==
    [][(Answered /\ last'.response = OK /\ last'.target_path \in NoFolder) =>
          /\ raised' = "none"
          /\ fs' = fs
          /\ notices' = notices
          /\ log' = <<>>
          /\ window' = "open"]_vars

C4_Witness ==
    /\ pc = "idle"
    /\ last.response = OK
    /\ last.target_path = {<<>>}
    /\ raised = "none"
    /\ ~fs[join(<<>>, ReportName)].exists

(* C5: a successful save to a folder that an earlier successful save      *)
(* wrote to leaves in the file the chunks of the second report and nothing *)
(* else.                                                                   *)
C5_SecondSaveOverwrites ==
    [][(Answered /\ Saved' /\ \E i \in 1..Len(notices) : notices[i] = NoticeText(LastPath')) =>
          /\ fs'[LastPath'].chunks = Dump(LastReport')
          /\ Len(fs'[LastPath'].chunks) = Len(Dump(LastReport'))]_vars

C5_Witness ==
    /\ Saved
    /\ Len(notices) = 2
    /\ notices[1] = notices[2]
    /\ last.comment = ""
    /\ fs[LastPath].chunks = Dump(LastReport)

C7_ProbeFailureSavesNothing ==
    [][(Answered /\ last'.probe_raised) =>
          /\ raised' = "probe"
          /\ fs' = fs
          /\ notices' = notices]_vars

C7_Witness ==
    /\ pc = "idle"
    /\ last.probe_raised
    /\ raised = "probe"
    /\ fs[LastPath] = OldFile

(* C8: a save never closes the report window: after every answer of the   *)
(* picker the window is open and, saves left, Save can be clicked again;   *)
(* the window is destroyed by on_destroy only.                             *)
C8_WindowStaysOpenAfterSave ==
    /\ [][Answered => window' = "open"]_vars
    /\ []((Saved /\ pc = "idle" /\ window = "open" /\ nsaves < MaxSaves) => ENABLED on_save)
    /\ [][window' # window => on_destroy]_vars

C8_Witness ==
    /\ Saved
    /\ window = "open"
    /\ pc = "picking"
    /\ Len(notices) = 1

(* C9: a save in which nothing fails gathers, writes, destroys the picker *)
(* and shows the notice, in this order; it shows exactly one notice, which *)
(* names the path written, and the file is complete when it is shown; any  *)
(* other answer shows no notice.                                           *)
C9_NoticeOnlyAfterWrite ==
    [][Answered =>
          IF Saved'
          THEN /\ log' = <<"gather", "write", "destroy", "notice">>
               /\ notices' = Append(notices, NoticeText(LastPath'))
               /\ json_load(fs'[LastPath']) = LastReport'
          ELSE /\ notices' = notices
               /\ "notice" \notin {log'[i] : i \in 1..Len(log')}]_vars

C9_Witness ==
    /\ Saved
    /\ log = <<"gather", "write", "destroy", "notice">>
    /\ notices = <<NoticeText(LastPath)>>
    /\ nsaves = 2

(* C10: the handler destroys the picker exactly when the report was       *)
(* written: each Save that ends otherwise leaves one more live picker.     *)
C10_PickerDestroyedIffSaved ==
    /\ [][Answered => live' = (IF Saved' THEN live - 1 ELSE live)]_vars
    /\ [](pc = "idle" => live = nsaves - Len(notices))

C10_Witness ==
    /\ pc = "idle"
    /\ nsaves = 2
    /\ live = 2
    /\ raised = "OSError"

====
